---- MODULE Spec2Model ----
(***************************************************************************)
(* doctora: the token-stream-to-tree parser of src/src/parser.rs (Chumsky *)
(* backend) and src/src/parser_winnow.rs (Winnow backend), driven by      *)
(* parse_document of src/src/lib.rs, which first runs the lexer derived   *)
(* for Token (src/src/token.rs) over the characters of the input; and the *)
(* ErrorRecovery collector of src/src/error_recovery.rs, which no parser  *)
(* is handed.                                                             *)
(*                                                                         *)
(* A parser is an operator p(toks, pos) from a token sequence and a       *)
(* 1-based cursor to a result [ok, pos, val]: on success the advanced     *)
(* cursor and the value built, on failure ok = FALSE.  Both combinator    *)
(* libraries try the alternatives of a choice in order and keep the first *)
(* that succeeds, and repeat greedily: a repetition stops at the first    *)
(* failing iteration, rewinds to where that iteration began, and is never *)
(* re-entered to give tokens back.                                        *)
(***************************************************************************)
EXTENDS Integers, Sequences, FiniteSets, TLC

VARIABLES
    chars,      \* the input text, character by character
    source,     \* the input text, as its lexemes [tok, text] in order
    tokens,     \* Vec<Token> collected from the lexer (lib.rs)
    pc,         \* "start" -> "input" -> "lexed" -> "chumsky" -> "done"
    chumsky,    \* Result of parser::document() on tokens
    winnow,     \* Result of parse_document_winnow on tokens
    recovery,   \* an ErrorRecovery collector (error_recovery.rs)
    calls       \* the errors passed to record_error so far, in call order

vars == <<chars, source, tokens, pc, chumsky, winnow, recovery, calls>>

-----------------------------------------------------------------------------
(* Bounds of the model                                                     *)

MaxLen == 5          \* longest general token sequence
MaxLevel == 2        \* deepest heading level drawn in general sequences
MaxInlineLen == 8    \* longest inline-only token sequence
MaxHeadings == 3     \* longest run of heading lines
MaxTitleWords == 2   \* most words in a heading title
MaxTextLen == 4      \* longest token sequence with distinguished word texts
MaxLevelLines == 2   \* longest run of heading lines over all six levels
MaxChars == 5        \* longest text drawn character by character
MaxErrors == 2       \* most errors recorded in one collector

-----------------------------------------------------------------------------
(* Tokens (src/src/token.rs)                                               *)

HeadingLevels == 1..6

HeadingToken(level) ==
    CASE level = 1 -> "Heading1"
      [] level = 2 -> "Heading2"
      [] level = 3 -> "Heading3"
      [] level = 4 -> "Heading4"
      [] level = 5 -> "Heading5"
      [] level = 6 -> "Heading6"

HeadingTokens == {HeadingToken(l) : l \in HeadingLevels}

Token == HeadingTokens \cup
         {"BoldDelimiter", "ItalicDelimiter", "Newline", "BlankLine", "Word"}

\* The source text a lexeme of a fixed token stands for.
SliceOf(tok) ==
    CASE tok = "Heading1" -> "="
      [] tok = "Heading2" -> "=="
      [] tok = "Heading3" -> "==="
      [] tok = "Heading4" -> "===="
      [] tok = "Heading5" -> "====="
      [] tok = "Heading6" -> "======"
      [] tok = "BoldDelimiter" -> "**"
      [] tok = "ItalicDelimiter" -> "_"
      [] tok = "Newline" -> "\n"
      [] tok = "BlankLine" -> "\n\n"

Lexeme(tok, text) == [tok |-> tok, text |-> text]

Fixed(tok) == Lexeme(tok, SliceOf(tok))

-----------------------------------------------------------------------------
(* The lexer Logos derives for Token (src/src/token.rs).  A text is the    *)
(* sequence of its characters.  At each position the lexer takes the       *)
(* longest match of any pattern; a character no pattern matches is an      *)
(* error item one character long.                                          *)

\* #[logos(skip r"[ \t]+")]
InlineWhitespace == {" ", "\t"}

\* \s of the Word pattern
Whitespace == {" ", "\t", "\n", "\r", "\f"}

\* #[regex(r"[^\s\*_=]+")]: the characters a Word is made of
IsWordChar(c) == c \notin Whitespace \cup {"*", "_", "="}

\* The position after the run of characters of set that starts at pos.
RECURSIVE RunEnd(_, _, _)
RunEnd(cs, pos, set) ==
    IF pos <= Len(cs) /\ cs[pos] \in set THEN RunEnd(cs, pos + 1, set) ELSE pos

\* The position after the run of word characters that starts at pos.
RECURSIVE WordEnd(_, _)
WordEnd(cs, pos) ==
    IF pos <= Len(cs) /\ IsWordChar(cs[pos]) THEN WordEnd(cs, pos + 1) ELSE pos

\* lexer.slice(): the characters from..to-1 as a string
RECURSIVE Slice(_, _, _)
Slice(cs, from, to) ==
    IF from >= to THEN "" ELSE cs[from] \o Slice(cs, from + 1, to)

Matched(tok, end) == [tok |-> tok, end |-> end]

\* #[token("=")] .. #[token("======")]: the longest of the six that matches
heading_token(pos, end) ==
    IF end - pos >= 6 THEN Matched("Heading6", pos + 6)
    ELSE Matched(HeadingToken(end - pos), end)

\* Mutant: only #[token("\n\n")], no regex: a blank line is two newlines.
newline_token_pairs(pos, end) ==
    IF end - pos >= 2 THEN Matched("BlankLine", pos + 2)
    ELSE Matched("Newline", pos + 1)

\* #[token("\n")] Newline, #[regex(r"\n\n+")] BlankLine
newline_token(pos, end) ==
    IF end - pos >= 2 THEN Matched("BlankLine", end)
    ELSE Matched("Newline", pos + 1)

\* One step of the derived lexer at pos <= Len(cs): the pattern matched
\* and the position after the match.
next_token(cs, pos) ==
    CASE cs[pos] = "=" -> heading_token(pos, RunEnd(cs, pos, {"="}))
      [] cs[pos] = "*" ->
           IF pos + 1 <= Len(cs) /\ cs[pos + 1] = "*"
           THEN Matched("BoldDelimiter", pos + 2)
           ELSE Matched("Error", pos + 1)
      [] cs[pos] = "_" -> Matched("ItalicDelimiter", pos + 1)
      [] cs[pos] = "\n" -> newline_token(pos, RunEnd(cs, pos, {"\n"}))
      [] cs[pos] \in InlineWhitespace ->
           Matched("Skip", RunEnd(cs, pos, InlineWhitespace))
      [] IsWordChar(cs[pos]) -> Matched("Word", WordEnd(cs, pos))
      [] OTHER -> Matched("Error", pos + 1)

RECURSIVE lexer_from(_, _, _)

\* The item of one match: skipped whitespace yields none.
lexer_item(cs, pos, acc, m) ==
    lexer_from(cs, m.end,
               IF m.tok = "Skip" THEN acc
               ELSE Append(acc, Lexeme(m.tok, Slice(cs, pos, m.end))))

lexer_from(cs, pos, acc) ==
    IF pos > Len(cs) THEN acc
    ELSE lexer_item(cs, pos, acc, next_token(cs, pos))

\* Token::lexer(input): the items the lexer yields in order, each with the
\* slice it matched; tok = "Error" for an Err item.
lexer(cs) == lexer_from(cs, 1, <<>>)

\* .filter_map(|result| result.ok()).collect(): the Ok items' token kinds
\* in order; the Err items and the slices are dropped.
RECURSIVE Lex(_)
Lex(src) ==
    IF src = <<>> THEN <<>>
    ELSE (IF Head(src).tok = "Error" THEN <<>> ELSE <<Head(src).tok>>)
         \o Lex(Tail(src))

-----------------------------------------------------------------------------
(* AST (src/src/ast.rs)                                                    *)

Text(s) == [type |-> "Text", text |-> s]
Bold(content) == [type |-> "Bold", content |-> content]
Italic(content) == [type |-> "Italic", content |-> content]
Section(level, title, content) ==
    [type |-> "Section", level |-> level, title |-> title, content |-> content]
Paragraph(content) == [type |-> "Paragraph", content |-> content]
with_blocks(blocks) == [blocks |-> blocks]

-----------------------------------------------------------------------------
(* Parser results                                                          *)

Fail == [ok |-> FALSE, pos |-> 0, val |-> <<>>]
Ok(pos, val) == [ok |-> TRUE, pos |-> pos, val |-> val]

\* Ordered choice of two alternatives: the first that succeeds.
choice(a, b) == IF a.ok THEN a ELSE b

-----------------------------------------------------------------------------
(* Chumsky backend (src/src/parser.rs)                                     *)

\* just(t): the token at the cursor is t.
just(t, toks, pos) ==
    IF pos <= Len(toks) /\ toks[pos] = t THEN Ok(pos + 1, t) ELSE Fail

\* just(t).repeated(): the cursor after the run of t starting at pos.
RECURSIVE just_repeated(_, _, _)
just_repeated(t, toks, pos) ==
    IF just(t, toks, pos).ok THEN just_repeated(t, toks, pos + 1) ELSE pos

RECURSIVE inline(_, _), inline_repeated(_, _, _), bold(_, _), italic(_, _)

\* Mutant: each inline is put in front of those collected before it.
inline_collect_front(toks, pos, acc, r) ==
    IF r.ok THEN inline_repeated(toks, r.pos, <<r.val>> \o acc)
    ELSE Ok(pos, acc)

\* One iteration of inline_ref.repeated().collect(): r is the result of
\* inline at pos; a failure ends the repetition at pos, where it began.
inline_collect(toks, pos, acc, r) ==
    IF r.ok THEN inline_repeated(toks, r.pos, Append(acc, r.val))
    ELSE Ok(pos, acc)

\* inline_ref.repeated().collect(): greedy, stops at the first failure.
inline_repeated(toks, pos, acc) ==
    inline_collect(toks, pos, acc, inline(toks, pos))

\* Mutant: a Newline is text too, a soft break inside a line of inlines.
text_or_newline(toks, pos) ==
    IF just("Word", toks, pos).ok \/ just("Newline", toks, pos).ok
    THEN Ok(pos + 1, Text("word"))
    ELSE Fail

\* just(Word).map(|_| Inline::Text("word"))
text(toks, pos) ==
    IF just("Word", toks, pos).ok THEN Ok(pos + 1, Text("word")) ELSE Fail

\* Mutant: a bold span still open where the paragraph ends is closed there.
bold_close_at_end(toks, content) ==
    IF Len(content.val) >= 1 /\ just("BoldDelimiter", toks, content.pos).ok
    THEN Ok(content.pos + 1, Bold(content.val))
    ELSE IF Len(content.val) >= 1
            /\ (content.pos > Len(toks)
                \/ toks[content.pos] \in {"Newline", "BlankLine"})
         THEN Ok(content.pos, Bold(content.val))
         ELSE Fail

\* .at_least(1) ... .then_ignore(just(BoldDelimiter)).map(Inline::Bold)
bold_close(toks, content) ==
    IF Len(content.val) >= 1 /\ just("BoldDelimiter", toks, content.pos).ok
    THEN Ok(content.pos + 1, Bold(content.val))
    ELSE Fail

\* just(BoldDelimiter).ignore_then(inline+) ...
bold(toks, pos) ==
    IF just("BoldDelimiter", toks, pos).ok
    THEN bold_close(toks, inline_repeated(toks, pos + 1, <<>>))
    ELSE Fail

\* Mutant: the content repetition is not at_least(1).
italic_close_allow_empty(toks, content) ==
    IF just("ItalicDelimiter", toks, content.pos).ok
    THEN Ok(content.pos + 1, Italic(content.val))
    ELSE Fail

italic_close(toks, content) ==
    IF Len(content.val) >= 1 /\ just("ItalicDelimiter", toks, content.pos).ok
    THEN Ok(content.pos + 1, Italic(content.val))
    ELSE Fail

italic(toks, pos) ==
    IF just("ItalicDelimiter", toks, pos).ok
    THEN italic_close(toks, inline_repeated(toks, pos + 1, <<>>))
    ELSE Fail

\* choice((bold, italic, text))
inline(toks, pos) ==
    choice(bold(toks, pos), choice(italic(toks, pos), text(toks, pos)))

\* Mutant: the paragraph does not take the newline that ends its line.
paragraph_end_no_newline(toks, content) ==
    IF Len(content.val) < 1 THEN Fail
    ELSE Ok(content.pos, Paragraph(content.val))

\* .at_least(1) ... .then_ignore(just(Newline).or_not()).map(Paragraph)
paragraph_end(toks, content) ==
    IF Len(content.val) < 1 THEN Fail
    ELSE Ok(IF just("Newline", toks, content.pos).ok
            THEN content.pos + 1 ELSE content.pos,
            Paragraph(content.val))

\* inline+ newline?
paragraph(toks, pos) ==
    paragraph_end(toks, inline_repeated(toks, pos, <<>>))

\* select! { Heading1 => 1, ..., Heading6 => 6 }
heading(toks, pos) ==
    IF pos <= Len(toks) /\ toks[pos] \in HeadingTokens
    THEN Ok(pos + 1, CHOOSE l \in HeadingLevels : HeadingToken(l) = toks[pos])
    ELSE Fail


\* Mutant: the title is parsed through the inline grammar.
title_inlines(toks, pos) ==
    LET content == inline_repeated(toks, pos, <<>>)
    IN  IF Len(content.val) < 1 THEN Fail ELSE Ok(content.pos, "Section")

\* Mutant: the title repetition is not at_least(1).
title_or_none(toks, pos) ==
    Ok(just_repeated("Word", toks, pos), "Section")

\* just(Word).repeated().at_least(1).map(|_words| "Section")
title(toks, pos) ==
    LET end == just_repeated("Word", toks, pos)
    IN  IF end - pos < 1 THEN Fail ELSE Ok(end, "Section")

RECURSIVE block(_, _), block_repeated(_, _, _), section(_, _)

\* One iteration of block_ref.repeated().collect()
block_collect(toks, pos, acc, r) ==
    IF r.ok THEN block_repeated(toks, r.pos, Append(acc, r.val))
    ELSE Ok(pos, acc)

\* block_ref.repeated().collect()
block_repeated(toks, pos, acc) ==
    block_collect(toks, pos, acc, block(toks, pos))

\* .map(|((level, title), content)| Block::Section { level, title, content })
section_map(level, t, content) ==
    Ok(content.pos, Section(level, t, content.val))

\* Mutant: the children of a section stop at a heading of its own or a
\* shallower level.
RECURSIVE block_repeated_below(_, _, _, _)
block_collect_below(level, toks, pos, acc, r) ==
    IF r.ok THEN block_repeated_below(level, toks, r.pos, Append(acc, r.val))
    ELSE Ok(pos, acc)

block_repeated_below(level, toks, pos, acc) ==
    LET h == heading(toks, pos)
    IN  IF h.ok /\ h.val <= level THEN Ok(pos, acc)
        ELSE block_collect_below(level, toks, pos, acc, block(toks, pos))

section_closing(toks, pos) ==
    LET h == heading(toks, pos)
        t == title(toks, h.pos)
        nl == just("Newline", toks, t.pos)
        bl == just("BlankLine", toks, t.pos)
    IN  IF ~h.ok THEN Fail
        ELSE IF ~t.ok THEN Fail
        ELSE IF ~(nl.ok \/ bl.ok) THEN Fail
        ELSE section_map(h.val, t.val,
                         block_repeated_below(h.val, toks, t.pos + 1, <<>>))

\* Mutant: a section takes its heading line only and no children.
section_flat(toks, pos) ==
    LET h == heading(toks, pos)
        t == title(toks, h.pos)
        nl == just("Newline", toks, t.pos)
        bl == just("BlankLine", toks, t.pos)
    IN  IF ~h.ok THEN Fail
        ELSE IF ~t.ok THEN Fail
        ELSE IF ~(nl.ok \/ bl.ok) THEN Fail
        ELSE section_map(h.val, t.val, Ok(t.pos + 1, <<>>))

\* heading title (Newline | BlankLine) block*
section(toks, pos) ==
    LET h == heading(toks, pos)
        t == title(toks, h.pos)
        nl == just("Newline", toks, t.pos)
        bl == just("BlankLine", toks, t.pos)
    IN  IF ~h.ok THEN Fail
        ELSE IF ~t.ok THEN Fail
        ELSE IF ~(nl.ok \/ bl.ok) THEN Fail
        ELSE section_map(h.val, t.val, block_repeated(toks, t.pos + 1, <<>>))

\* Mutant: .then_ignore(just(BlankLine).or_not()), at most one blank line.
skip_one_blank_line(toks, b) ==
    IF b.ok
    THEN Ok(IF just("BlankLine", toks, b.pos).ok THEN b.pos + 1 ELSE b.pos,
            b.val)
    ELSE Fail

\* .then_ignore(just(BlankLine).repeated())
skip_blank_lines(toks, b) ==
    IF b.ok THEN Ok(just_repeated("BlankLine", toks, b.pos), b.val) ELSE Fail

\* choice((section, paragraph)).then_ignore(just(BlankLine).repeated())
block(toks, pos) ==
    skip_blank_lines(toks, choice(section(toks, pos), paragraph(toks, pos)))

\* The Err side of into_result(): no recovery strategy is attached to any
\* parser of the grammar, so a failed parse carries the one error of the
\* failure, a chumsky Simple error, which parse_document formats to a String.
SimpleError == [kind |-> "Simple"]

\* Mutant: the document's repetition is at_least(1).
document_end_at_least_one(toks, blocks) ==
    IF blocks.pos = Len(toks) + 1 /\ blocks.val # <<>>
    THEN [ok |-> TRUE, doc |-> with_blocks(blocks.val), errors |-> <<>>]
    ELSE [ok |-> FALSE, doc |-> with_blocks(<<>>), errors |-> <<SimpleError>>]

\* .then_ignore(end()).map(|blocks| Document::with_blocks(blocks))
document_end(toks, blocks) ==
    IF blocks.pos = Len(toks) + 1
    THEN [ok |-> TRUE, doc |-> with_blocks(blocks.val), errors |-> <<>>]
    ELSE [ok |-> FALSE, doc |-> with_blocks(<<>>), errors |-> <<SimpleError>>]

\* Mutant: line breaks before the first block are skipped.
document_skip_leading(toks) ==
    document_end(toks,
                 block_repeated(toks, just_repeated("BlankLine", toks, 1), <<>>))

\* block().repeated().collect().then_ignore(end()).map(Document::with_blocks)
document(toks) == document_end(toks, block_repeated(toks, 1, <<>>))

-----------------------------------------------------------------------------
(* Winnow backend (src/src/parser_winnow.rs)                               *)

\* any.verify(|t| *t == expected)
token(expected, toks, pos) ==
    IF pos <= Len(toks) /\ toks[pos] = expected THEN Ok(pos + 1, expected)
    ELSE Fail

\* repeat(0.., token(expected)): the cursor after the run of expected.
RECURSIVE token_repeat(_, _, _)
token_repeat(expected, toks, pos) ==
    IF token(expected, toks, pos).ok THEN token_repeat(expected, toks, pos + 1)
    ELSE pos

RECURSIVE winnow_inline(_, _), winnow_inline_repeat(_, _, _)
RECURSIVE winnow_bold(_, _), winnow_italic(_, _)

\* One iteration of repeat(.., inline)
winnow_inline_fold(toks, pos, acc, r) ==
    IF r.ok THEN winnow_inline_repeat(toks, r.pos, Append(acc, r.val))
    ELSE Ok(pos, acc)

\* repeat(1.., inline), before its lower bound is applied
winnow_inline_repeat(toks, pos, acc) ==
    winnow_inline_fold(toks, pos, acc, winnow_inline(toks, pos))

\* Mutant: two Words in a row become one Text.
winnow_text_pair(toks, pos) ==
    IF token("Word", toks, pos).ok
    THEN Ok(IF token("Word", toks, pos + 1).ok THEN pos + 2 ELSE pos + 1,
            Text("word"))
    ELSE Fail

winnow_text(toks, pos) ==
    IF token("Word", toks, pos).ok THEN Ok(pos + 1, Text("word")) ELSE Fail

\* delimited(.., repeat(1.., inline), token(BoldDelimiter)).map(Inline::Bold)
winnow_bold_close(toks, content) ==
    IF Len(content.val) >= 1 /\ token("BoldDelimiter", toks, content.pos).ok
    THEN Ok(content.pos + 1, Bold(content.val))
    ELSE Fail

\* delimited(token(BoldDelimiter), ..
winnow_bold(toks, pos) ==
    IF token("BoldDelimiter", toks, pos).ok
    THEN winnow_bold_close(toks, winnow_inline_repeat(toks, pos + 1, <<>>))
    ELSE Fail

winnow_italic_close(toks, content) ==
    IF Len(content.val) >= 1 /\ token("ItalicDelimiter", toks, content.pos).ok
    THEN Ok(content.pos + 1, Italic(content.val))
    ELSE Fail

winnow_italic(toks, pos) ==
    IF token("ItalicDelimiter", toks, pos).ok
    THEN winnow_italic_close(toks, winnow_inline_repeat(toks, pos + 1, <<>>))
    ELSE Fail

\* alt((bold, italic, text))
winnow_inline(toks, pos) ==
    choice(winnow_bold(toks, pos),
           choice(winnow_italic(toks, pos), winnow_text(toks, pos)))

\* opt(token(Newline)); repeat(0.., token(BlankLine)); Ok(Paragraph)
winnow_paragraph_end(toks, content) ==
    IF Len(content.val) < 1 THEN Fail
    ELSE Ok(token_repeat("BlankLine", toks,
                IF token("Newline", toks, content.pos).ok
                THEN content.pos + 1 ELSE content.pos),
            Paragraph(content.val))

\* repeat(1.., inline); opt(token(Newline)); repeat(0.., token(BlankLine))
winnow_paragraph(toks, pos) ==
    winnow_paragraph_end(toks, winnow_inline_repeat(toks, pos, <<>>))

\* Mutant: the last arm of the match returns the level of the arm before.
heading_level_last_arm(toks, pos) ==
    IF pos > Len(toks) THEN Fail
    ELSE CASE toks[pos] = "Heading1" -> Ok(pos + 1, 1)
           [] toks[pos] = "Heading2" -> Ok(pos + 1, 2)
           [] toks[pos] = "Heading3" -> Ok(pos + 1, 3)
           [] toks[pos] = "Heading4" -> Ok(pos + 1, 4)
           [] toks[pos] = "Heading5" -> Ok(pos + 1, 5)
           [] toks[pos] = "Heading6" -> Ok(pos + 1, 5)
           [] OTHER -> Fail

heading_level(toks, pos) ==
    IF pos > Len(toks) THEN Fail
    ELSE CASE toks[pos] = "Heading1" -> Ok(pos + 1, 1)
           [] toks[pos] = "Heading2" -> Ok(pos + 1, 2)
           [] toks[pos] = "Heading3" -> Ok(pos + 1, 3)
           [] toks[pos] = "Heading4" -> Ok(pos + 1, 4)
           [] toks[pos] = "Heading5" -> Ok(pos + 1, 5)
           [] toks[pos] = "Heading6" -> Ok(pos + 1, 6)
           [] OTHER -> Fail

RECURSIVE winnow_block(_, _), winnow_block_repeat(_, _, _)
RECURSIVE winnow_section(_, _)

\* One iteration of repeat(0.., block)
winnow_block_fold(toks, pos, acc, r) ==
    IF r.ok THEN winnow_block_repeat(toks, r.pos, Append(acc, r.val))
    ELSE Ok(pos, acc)

\* repeat(0.., block)
winnow_block_repeat(toks, pos, acc) ==
    winnow_block_fold(toks, pos, acc, winnow_block(toks, pos))

\* Mutant: the section does not skip the blank lines after its content.
winnow_section_end_no_skip(toks, level, content) ==
    Ok(content.pos, Section(level, "Section", content.val))

\* repeat(0.., token(BlankLine)); Ok(Block::Section { level, title, content })
winnow_section_end(toks, level, content) ==
    Ok(token_repeat("BlankLine", toks, content.pos),
       Section(level, "Section", content.val))

\* Mutant: a heading line that ends the input needs no line end.
winnow_section_open_end(toks, pos) ==
    LET level == heading_level(toks, pos)
        title_end == token_repeat("Word", toks, level.pos)
        nl == token("Newline", toks, title_end)
        bl == token("BlankLine", toks, title_end)
    IN  IF ~level.ok THEN Fail
        ELSE IF title_end - level.pos < 1 THEN Fail
        ELSE IF ~(nl.ok \/ bl.ok)
             THEN (IF title_end > Len(toks)
                   THEN Ok(title_end, Section(level.val, "Section", <<>>))
                   ELSE Fail)
        ELSE winnow_section_end(toks, level.val,
                 winnow_block_repeat(toks, title_end + 1, <<>>))

winnow_section(toks, pos) ==
    LET level == heading_level(toks, pos)
        title_end == token_repeat("Word", toks, level.pos)
        nl == token("Newline", toks, title_end)
        bl == token("BlankLine", toks, title_end)
    IN  IF ~level.ok THEN Fail
        ELSE IF title_end - level.pos < 1 THEN Fail
        ELSE IF ~(nl.ok \/ bl.ok) THEN Fail
        ELSE winnow_section_end(toks, level.val,
                 winnow_block_repeat(toks, title_end + 1, <<>>))

\* alt((section, paragraph))
winnow_block(toks, pos) ==
    choice(winnow_section(toks, pos), winnow_paragraph(toks, pos))

\* The Err side: the ContextError of the failure, formatted to a String.
ContextError == [kind |-> "Context"]

\* terminated(.., eof) ... .map(Document::with_blocks).map_err(..)
winnow_document_end(input, blocks) ==
    IF blocks.pos = Len(input) + 1
    THEN [ok |-> TRUE, doc |-> with_blocks(blocks.val), errors |-> <<>>]
    ELSE [ok |-> FALSE, doc |-> with_blocks(<<>>), errors |-> <<ContextError>>]

\* terminated(repeat(0.., block), eof).parse(input)
parse_document_winnow(input) ==
    winnow_document_end(input, winnow_block_repeat(input, 1, <<>>))

-----------------------------------------------------------------------------
(* The error collector (src/src/error_recovery.rs)                         *)

\* ParseError::UnexpectedEOF { context }
UnexpectedEOF(context) == [kind |-> "UnexpectedEOF", context |-> context]

\* ParseError::InvalidStructure { message }
InvalidStructure(message) == [kind |-> "InvalidStructure", message |-> message]

\* ErrorRecovery::new()
new == [errors |-> <<>>, fail_fast |-> TRUE]

\* Mutant: the collector keeps only the last error.
record_error_last(self, error) == [self EXCEPT !.errors = <<error>>]

\* self.errors.push(error)
record_error(self, error) == [self EXCEPT !.errors = Append(@, error)]

\* &self.errors
errors(self) == self.errors

\* !self.errors.is_empty()
has_errors(self) == ~(self.errors = <<>>)

-----------------------------------------------------------------------------
(* Inputs                                                                  *)

WordA == Lexeme("Word", "a")

GeneralLexemes ==
    {Fixed(HeadingToken(l)) : l \in 1..MaxLevel} \cup
    {Fixed("BoldDelimiter"), Fixed("ItalicDelimiter"),
     Fixed("Newline"), Fixed("BlankLine"), WordA}

\* Paragraph content only: words and delimiters.
InlineLexemes == {Fixed("BoldDelimiter"), Fixed("ItalicDelimiter"), WordA}

\* Heading lines: a heading token, one or more words, a line end.
Words(k) == [i \in 1..k |-> WordA]

HeadingLines ==
    {<<Fixed(HeadingToken(l))>> \o Words(k) \o <<Fixed(sep)>> :
        l \in 1..MaxLevel, k \in 1..MaxTitleWords,
        sep \in {"Newline", "BlankLine"}}

\* The lines of a run, one after the other.
RECURSIVE Concat(_)
Concat(lines) ==
    IF lines = <<>> THEN <<>> ELSE Head(lines) \o Concat(Tail(lines))

\* Lexemes whose words differ in their text.
WordTexts == {"a", "b"}

TextLexemes ==
    {Lexeme("Word", t) : t \in WordTexts} \cup
    {Fixed("Heading1"), Fixed("BoldDelimiter"), Fixed("ItalicDelimiter"),
     Fixed("Newline"), Fixed("BlankLine")}

\* The characters of a lexeme: its slice, one character per element.  The
\* words drawn are one character long.
Chars(lexeme) ==
    CASE lexeme.tok \in HeadingTokens ->
           [i \in 1..(CHOOSE l \in HeadingLevels :
                         HeadingToken(l) = lexeme.tok) |-> "="]
      [] lexeme.tok = "BoldDelimiter" -> <<"*", "*">>
      [] lexeme.tok = "ItalicDelimiter" -> <<"_">>
      [] lexeme.tok = "Newline" -> <<"\n">>
      [] lexeme.tok = "BlankLine" -> <<"\n", "\n">>
      [] lexeme.tok = "Word" -> <<lexeme.text>>

\* The text that has these lexemes: their characters, with one space
\* between neighbours, so that no two of them run together.
RECURSIVE Spell(_)
Spell(lexemes) ==
    IF lexemes = <<>> THEN <<>>
    ELSE IF Len(lexemes) = 1 THEN Chars(Head(lexemes))
    ELSE Chars(Head(lexemes)) \o <<" ">> \o Spell(Tail(lexemes))

NoResult == [ok |-> FALSE, doc |-> with_blocks(<<>>), errors |-> <<>>]

-----------------------------------------------------------------------------
(* The program: lex, then parse with each backend                          *)

\* Nothing has run yet.
Idle ==
    /\ source = <<>>
    /\ tokens = <<>>
    /\ pc = "start"
    /\ chumsky = NoResult
    /\ winnow = NoResult
    /\ recovery = new
    /\ calls = <<>>

\* Any text of up to MaxLen lexemes.
Init ==
    /\ \E k \in 0..MaxLen :
          \E lexemes \in [1..k -> GeneralLexemes] : chars = Spell(lexemes)
    /\ Idle

\* lib.rs parse_document, step 1: Token::lexer(input)
Tokenize ==
    /\ pc = "start"
    /\ source' = lexer(chars)
    /\ pc' = "input"
    /\ UNCHANGED <<chars, tokens, chumsky, winnow, recovery, calls>>

\* lib.rs parse_document, step 1: .filter_map(ok).collect()
LexInput ==
    /\ pc = "input"
    /\ tokens' = Lex(source)
    /\ pc' = "lexed"
    /\ UNCHANGED <<chars, source, chumsky, winnow, recovery, calls>>

\* lib.rs parse_document, step 2
ParseChumsky ==
    /\ pc = "lexed"
    /\ chumsky' = document(tokens)
    /\ pc' = "chumsky"
    /\ UNCHANGED <<chars, source, tokens, winnow, recovery, calls>>

\* benches/parser_bench.rs: the same tokens through the Winnow backend
ParseWinnow ==
    /\ pc = "chumsky"
    /\ winnow' = parse_document_winnow(tokens)
    /\ pc' = "done"
    /\ UNCHANGED <<chars, source, tokens, chumsky, recovery, calls>>

Next == Tokenize \/ LexInput \/ ParseChumsky \/ ParseWinnow

Spec == Init /\ [][Next]_vars

\* The same program on runs of 1..MaxHeadings heading lines,
InitHeadings ==
    /\ \E n \in 1..MaxHeadings :
          \E lines \in [1..n -> HeadingLines] : chars = Spell(Concat(lines))
    /\ Idle

SpecHeadings == InitHeadings /\ [][Next]_vars

\* on paragraph content of up to MaxInlineLen lexemes,
InitInline ==
    /\ \E k \in 0..MaxInlineLen :
          \E lexemes \in [1..k -> InlineLexemes] : chars = Spell(lexemes)
    /\ Idle

SpecInline == InitInline /\ [][Next]_vars

\* and on texts of up to MaxTextLen lexemes whose words differ.
InitText ==
    /\ \E k \in 0..MaxTextLen :
          \E lexemes \in [1..k -> TextLexemes] : chars = Spell(lexemes)
    /\ Idle

SpecText == InitText /\ [][Next]_vars

\* and on runs of 1..MaxLevelLines one-word heading lines of every level.
LevelLines ==
    {<<Fixed(HeadingToken(l)), WordA, Fixed(sep)>> :
        l \in HeadingLevels, sep \in {"Newline", "BlankLine"}}

InitLevels ==
    /\ \E n \in 1..MaxLevelLines :
          \E lines \in [1..n -> LevelLines] : chars = Spell(Concat(lines))
    /\ Idle

SpecLevels == InitLevels /\ [][Next]_vars

\* and on every text of up to MaxChars characters of the lexer's classes:
\* a heading character, a bold character, the italic delimiter, a line
\* break, inline whitespace and a word character.
Alphabet == {"=", "*", "_", "\n", " ", "a"}

InitChars ==
    /\ \E k \in 0..MaxChars : chars \in [1..k -> Alphabet]
    /\ Idle

SpecChars == InitChars /\ [][Next]_vars

\* The errors a caller records.
ErrorValues == {UnexpectedEOF("test"), InvalidStructure("test")}

\* recovery.record_error(error), up to MaxErrors times
RecordError ==
    /\ Len(calls) < MaxErrors
    /\ \E error \in ErrorValues :
          /\ recovery' = record_error(recovery, error)
          /\ calls' = Append(calls, error)
    /\ UNCHANGED <<chars, source, tokens, pc, chumsky, winnow>>

\* The parse of a text of at most one character, and a collector that
\* records errors meanwhile: no parser is handed the collector.
InitRecovery ==
    /\ \E k \in 0..1 : chars \in [1..k -> Alphabet]
    /\ Idle

NextRecovery == Next \/ RecordError

SpecRecovery == InitRecovery /\ [][NextRecovery]_vars

-----------------------------------------------------------------------------
(* Vocabulary of the properties                                            *)

H(l) == HeadingToken(l)
B == "BoldDelimiter"
I == "ItalicDelimiter"
W == "Word"
NL == "Newline"
BL == "BlankLine"

LevelOf(tok) == CHOOSE l \in HeadingLevels : HeadingToken(l) = tok

\* The levels of the heading tokens of toks, in order.
RECURSIVE HeadingLevelsOf(_)
HeadingLevelsOf(toks) ==
    IF toks = <<>> THEN <<>>
    ELSE IF Head(toks) \in HeadingTokens
         THEN <<LevelOf(Head(toks))>> \o HeadingLevelsOf(Tail(toks))
         ELSE HeadingLevelsOf(Tail(toks))

\* blocks is a right-nested chain of Sections with exactly these levels.
RECURSIVE IsChain(_, _)
IsChain(blocks, levels) ==
    IF levels = <<>> THEN blocks = <<>>
    ELSE /\ Len(blocks) = 1
         /\ blocks[1].type = "Section"
         /\ blocks[1].level = Head(levels)
         /\ IsChain(blocks[1].content, Tail(levels))

Done == pc = "done"

-----------------------------------------------------------------------------
(* C1: a run of n >= 1 heading lines, whatever the levels, parses (in both *)
(* backends) to one top-level Section holding the second, holding the      *)
(* third, and so on: a right-nested chain of depth n.                      *)
C1_GreedyChain ==
    Done => /\ chumsky.ok
            /\ IsChain(chumsky.doc.blocks, HeadingLevelsOf(tokens))
            /\ winnow.ok
            /\ IsChain(winnow.doc.blocks, HeadingLevelsOf(tokens))

\* A run of three headings whose later levels are equal and shallower.
C1_Witness ==
    /\ Done
    /\ HeadingLevelsOf(tokens) = <<2, 2, 1>>
    /\ chumsky.ok
    /\ chumsky.doc.blocks[1].content[1].content[1].level = 1

(* C2: two level-1 headings, [Heading1, Word, BlankLine, Heading1, Word,   *)
(* Newline], parse to two top-level Sections, not one nested in the other. *)
C2_SiblingIndependence ==
    (Done /\ tokens = <<H(1), W, BL, H(1), W, NL>>) =>
        /\ chumsky.ok
        /\ Len(chumsky.doc.blocks) = 2
        /\ \A i \in 1..2 : /\ chumsky.doc.blocks[i].type = "Section"
                            /\ chumsky.doc.blocks[i].level = 1
                            /\ chumsky.doc.blocks[i].content = <<>>

-----------------------------------------------------------------------------
\* The texts of the Text leaves under a sequence of inline nodes, in order.
RECURSIVE InlineTexts(_)
InlineTexts(inlines) ==
    IF inlines = <<>> THEN <<>>
    ELSE (IF Head(inlines).type = "Text" THEN <<Head(inlines).text>>
          ELSE InlineTexts(Head(inlines).content))
         \o InlineTexts(Tail(inlines))

\* The texts a sequence of blocks holds, in document order: a Section's
\* title, then its content; a Paragraph's Text leaves.
RECURSIVE BlockTexts(_)
BlockTexts(blocks) ==
    IF blocks = <<>> THEN <<>>
    ELSE (IF Head(blocks).type = "Section"
          THEN <<Head(blocks).title>> \o BlockTexts(Head(blocks).content)
          ELSE InlineTexts(Head(blocks).content))
         \o BlockTexts(Tail(blocks))

\* The number of Word lexemes at the front of src.
RECURSIVE WordRun(_)
WordRun(src) ==
    IF src # <<>> /\ Head(src).tok = "Word" THEN 1 + WordRun(Tail(src)) ELSE 0

\* The texts of the first n lexemes of src, joined by single spaces.
RECURSIVE JoinTexts(_, _)
JoinTexts(src, n) ==
    IF n = 1 THEN src[1].text
    ELSE src[1].text \o " " \o JoinTexts(Tail(src), n - 1)

\* The texts the source gives each node: the words of a heading's title as
\* one text, every other word as a text of its own.
RECURSIVE SourceTexts(_)
SourceTexts(src) ==
    IF src = <<>> THEN <<>>
    ELSE IF Head(src).tok \in HeadingTokens /\ WordRun(Tail(src)) >= 1
         THEN <<JoinTexts(Tail(src), WordRun(Tail(src)))>>
              \o SourceTexts(SubSeq(src, 2 + WordRun(Tail(src)), Len(src)))
    ELSE IF Head(src).tok = "Word"
         THEN <<Head(src).text>> \o SourceTexts(Tail(src))
    ELSE SourceTexts(Tail(src))

(* C3: in a successful parse the Text leaves of every Paragraph and the    *)
(* title of every Section carry, in order and one leaf per token, exactly  *)
(* the text of the Word tokens consumed for them.                          *)
C3_TextFidelity ==
    (Done /\ chumsky.ok) => BlockTexts(chumsky.doc.blocks) = SourceTexts(source)

-----------------------------------------------------------------------------
(* The grammar, as a grammar: every derivation, not the first one found.   *)
(*   inline := bold | italic | Word                                        *)
(*   bold   := BoldDelimiter inline+ BoldDelimiter                         *)
(*   italic := ItalicDelimiter inline+ ItalicDelimiter                     *)
(* A derivation from pos is a pair <<end, depth>>: the cursor after it and *)
(* the deepest nesting of delimiter pairs in it.                           *)

Max(a, b) == IF a >= b THEN a ELSE b

At(toks, pos, t) == pos <= Len(toks) /\ toks[pos] = t

RECURSIVE GInline(_, _), GInlinePlus(_, _)

GSpan(d, toks, pos) ==
    IF At(toks, pos, d)
    THEN {<<q[1] + 1, q[2] + 1>> :
             q \in {r \in GInlinePlus(toks, pos + 1) : At(toks, r[1], d)}}
    ELSE {}

GInline(toks, pos) ==
    (IF At(toks, pos, "Word") THEN {<<pos + 1, 0>>} ELSE {})
    \cup GSpan("BoldDelimiter", toks, pos)
    \cup GSpan("ItalicDelimiter", toks, pos)

GInlineMore(toks, first) ==
    first \cup
    UNION {{<<q[1], Max(p[2], q[2])>> :
               q \in GInlinePlus(toks, e), p \in {r \in first : r[1] = e}} :
           e \in {r[1] : r \in first}}

GInlinePlus(toks, pos) == GInlineMore(toks, GInline(toks, pos))

(*   document  := block* end                                               *)
(*   block     := (section | paragraph) BlankLine*                         *)
(*   section   := heading Word+ (Newline | BlankLine) block*               *)
(*   paragraph := inline+ Newline?                                         *)
(* Here a derivation from pos is the cursor after it.                      *)

RECURSIVE Run(_, _, _)
Run(t, toks, pos) == IF At(toks, pos, t) THEN 1 + Run(t, toks, pos + 1) ELSE 0

GParagraph(toks, pos) ==
    UNION {{e} \cup (IF At(toks, e, "Newline") THEN {e + 1} ELSE {}) :
           e \in {r[1] : r \in GInlinePlus(toks, pos)}}

RECURSIVE GBlock(_, _), GBlockStar(_, _)

GSection(toks, pos) ==
    IF pos <= Len(toks) /\ toks[pos] \in HeadingTokens
    THEN UNION {IF At(toks, pos + 1 + k, "Newline")
                   \/ At(toks, pos + 1 + k, "BlankLine")
                THEN GBlockStar(toks, pos + 2 + k) ELSE {} :
                k \in 1..Run("Word", toks, pos + 1)}
    ELSE {}

GBlock(toks, pos) ==
    UNION {e..(e + Run("BlankLine", toks, e)) :
           e \in GSection(toks, pos) \cup GParagraph(toks, pos)}

GBlockStar(toks, pos) ==
    {pos} \cup UNION {GBlockStar(toks, e) : e \in GBlock(toks, pos)}

Derivable(toks) == (Len(toks) + 1) \in GBlockStar(toks, 1)

\* The nesting depths of the derivations of toks as paragraph content.
InputDepths(toks) ==
    {r[2] : r \in {q \in GInlinePlus(toks, 1) : q[1] = Len(toks) + 1}}

\* The nesting depth of Bold/Italic nodes in a sequence of inline nodes.
RECURSIVE InlineDepth(_)
InlineDepth(inlines) ==
    IF inlines = <<>> THEN 0
    ELSE Max(IF Head(inlines).type = "Text" THEN 0
             ELSE 1 + InlineDepth(Head(inlines).content),
             InlineDepth(Tail(inlines)))

IsOneParagraph(r) ==
    /\ r.ok
    /\ Len(r.doc.blocks) = 1
    /\ r.doc.blocks[1].type = "Paragraph"

(* C4: every paragraph made only of Words and well-formed (properly        *)
(* nested, non-empty) delimiter pairs parses, in both backends, and the    *)
(* nesting depth of the Bold/Italic nodes is that of the delimiter pairs.  *)
C4_BalancedDelimiters ==
    (Done /\ InputDepths(tokens) # {}) =>
        /\ IsOneParagraph(chumsky)
        /\ InlineDepth(chumsky.doc.blocks[1].content) \in InputDepths(tokens)
        /\ IsOneParagraph(winnow)
        /\ InlineDepth(winnow.doc.blocks[1].content) \in InputDepths(tokens)

-----------------------------------------------------------------------------
(* C5: on every token sequence the two backends either both fail or both   *)
(* succeed with equal Documents.                                           *)
C5_BackendsAgree ==
    Done => /\ chumsky.ok = winnow.ok
            /\ chumsky.ok => chumsky.doc = winnow.doc

\* Both succeed on a section that a blank line after its heading line
\* closes, followed by a paragraph: two top-level blocks.
C5_Witness ==
    /\ Done
    /\ tokens = <<H(2), W, NL, BL, W>>
    /\ chumsky.ok /\ winnow.ok
    /\ Len(winnow.doc.blocks) = 2

-----------------------------------------------------------------------------
(* Unclosed delimiters.  A delimiter closes the open span of its own kind  *)
(* when that span is the innermost open one, and opens a span otherwise;   *)
(* the spans still open at the end of a segment have no closing delimiter. *)

DelimiterStep(stack, t) ==
    IF t \notin {"BoldDelimiter", "ItalicDelimiter"} THEN stack
    ELSE IF stack # <<>> /\ stack[Len(stack)] = t
         THEN SubSeq(stack, 1, Len(stack) - 1)
         ELSE Append(stack, t)

\* The number of segments of toks, as cut at the tokens of seps, that end
\* with a span still open.
RECURSIVE UnclosedSegments(_, _, _)
UnclosedSegments(toks, stack, seps) ==
    IF toks = <<>> THEN (IF stack # <<>> THEN 1 ELSE 0)
    ELSE IF Head(toks) \in seps
         THEN (IF stack # <<>> THEN 1 ELSE 0)
              + UnclosedSegments(Tail(toks), <<>>, seps)
         ELSE UnclosedSegments(Tail(toks), DelimiterStep(stack, Head(toks)), seps)

\* error_recovery.rs: ParseError::UnclosedDelimiter { delimiter, start }
UnclosedDelimiter(delimiter, start) ==
    [kind |-> "UnclosedDelimiter", delimiter |-> delimiter, start |-> start]

\* Blocks between synchronization points (BlankLine, heading) that hold an
\* unclosed delimiter: independent structural errors of the input.
IndependentErrors(toks) ==
    UnclosedSegments(toks, <<>>, {"BlankLine"} \cup HeadingTokens)

(* C6: a parse of an input with several independent structural errors does *)
(* not stop at the first: it reports every one of them, one entry each.    *)
C6_MultiErrorRecovery ==
    (Done /\ IndependentErrors(tokens) >= 2) =>
        /\ ~chumsky.ok
        /\ Len(chumsky.errors) >= IndependentErrors(tokens)
        /\ ~winnow.ok
        /\ Len(winnow.errors) >= IndependentErrors(tokens)

(* C7: parsing [BoldDelimiter, Word] fails with the structured error       *)
(* UnclosedDelimiter, kind Bold, opening position 0.                       *)
C7_UnclosedDelimiterError ==
    (Done /\ tokens = <<B, W>>) =>
        /\ ~chumsky.ok
        /\ chumsky.errors = <<UnclosedDelimiter("Bold", 0)>>

\* Some line of toks (ended by Newline, BlankLine or the end of input) has
\* an opening delimiter with no closing delimiter of its kind.
HasUnclosedDelimiter(toks) ==
    UnclosedSegments(toks, <<>>, {"Newline", "BlankLine"}) >= 1

(* C8: a paragraph with an opening delimiter that has no matching closing  *)
(* delimiter before the paragraph ends never parses: the result is a       *)
(* failure, in both backends.                                              *)
C8_NoAutoClose ==
    (Done /\ HasUnclosedDelimiter(tokens)) => (~chumsky.ok /\ ~winnow.ok)

\* A bold span left open at the end of the first line of two.
C8_Witness ==
    /\ Done
    /\ tokens = <<W, B, W, NL, W>>
    /\ HasUnclosedDelimiter(tokens)
    /\ ~chumsky.ok /\ ~winnow.ok
    /\ chumsky.errors # <<>>

(* C9: a token sequence parses if and only if the grammar derives it.      *)
C9_ExactlyTheGrammar ==
    Done => /\ chumsky.ok <=> Derivable(tokens)
            /\ winnow.ok <=> Derivable(tokens)

-----------------------------------------------------------------------------
(* Canonical rendering of a tree to tokens: Text -> Word; Bold/Italic ->   *)
(* delimiter, children, delimiter; Paragraph -> its inlines, BlankLine;    *)
(* Section -> heading token of its level, a title Word, the separator sep, *)
(* its children.                                                           *)

RECURSIVE RenderInlines(_)
RenderInlines(inlines) ==
    IF inlines = <<>> THEN <<>>
    ELSE (CASE Head(inlines).type = "Text" -> <<W>>
            [] Head(inlines).type = "Bold" ->
                 <<B>> \o RenderInlines(Head(inlines).content) \o <<B>>
            [] Head(inlines).type = "Italic" ->
                 <<I>> \o RenderInlines(Head(inlines).content) \o <<I>>)
         \o RenderInlines(Tail(inlines))

RECURSIVE RenderBlocks(_, _)
RenderBlocks(blocks, sep) ==
    IF blocks = <<>> THEN <<>>
    ELSE (IF Head(blocks).type = "Section"
          THEN <<H(Head(blocks).level), W, sep>>
               \o RenderBlocks(Head(blocks).content, sep)
          ELSE RenderInlines(Head(blocks).content) \o <<BL>>)
         \o RenderBlocks(Tail(blocks), sep)

Render(doc, sep) == RenderBlocks(doc.blocks, sep)

Reparses(doc, r) == r.ok /\ r.doc = doc

(* C10: the canonical rendering of every parsed Document parses again, to  *)
(* an equal Document.                                                      *)
C10_RenderParseIdempotent ==
    (Done /\ chumsky.ok) =>
        \A sep \in {NL, BL} :
            Reparses(chumsky.doc, document(Render(chumsky.doc, sep)))

-----------------------------------------------------------------------------
\* No block follows a Section among its siblings, at any depth.
RECURSIVE SectionsLast(_)
SectionsLast(blocks) ==
    \A i \in 1..Len(blocks) :
        blocks[i].type = "Section" =>
            /\ i = Len(blocks)
            /\ SectionsLast(blocks[i].content)

StartsWithHeading(toks) == toks # <<>> /\ Head(toks) \in HeadingTokens

NestedUnderHeadings(r, toks) ==
    r.ok => /\ SectionsLast(r.doc.blocks)
            /\ StartsWithHeading(toks) => Len(r.doc.blocks) = 1

(* C11: in every parsed Document a Section is the last of its siblings     *)
(* (every block after a heading is nested in that heading's Section), so   *)
(* an input that starts with a heading has exactly one top-level block.    *)
C11_SectionIsLast ==
    Done => /\ NestedUnderHeadings(chumsky, tokens)
            /\ NestedUnderHeadings(winnow, tokens)

\* r is one top-level Section of level l1 holding exactly one Section of
\* level l2.
IsSectionInSection(r, l1, l2) ==
    /\ r.ok
    /\ Len(r.doc.blocks) = 1
    /\ r.doc.blocks[1].type = "Section"
    /\ r.doc.blocks[1].level = l1
    /\ Len(r.doc.blocks[1].content) = 1
    /\ r.doc.blocks[1].content[1].type = "Section"
    /\ r.doc.blocks[1].content[1].level = l2

(* C12: a heading of level l1, a blank line, a heading of a deeper level   *)
(* l2 > l1 and a Newline parse to one top-level Section of level l1 whose  *)
(* content is one Section of level l2.                                     *)
C12_DeeperHeadingNests ==
    \A l1, l2 \in HeadingLevels :
        (Done /\ l1 < l2 /\ tokens = <<H(l1), W, BL, H(l2), W, NL>>) =>
            /\ IsSectionInSection(chumsky, l1, l2)
            /\ IsSectionInSection(winnow, l1, l2)

C12_Witness ==
    /\ Done
    /\ tokens = <<H(1), W, BL, H(2), W, NL>>
    /\ IsSectionInSection(chumsky, 1, 2)
    /\ chumsky.doc.blocks[1].content[1].content = <<>>

-----------------------------------------------------------------------------
\* The lines of toks: the runs of tokens between Newline tokens.
RECURSIVE SplitLines(_, _)
SplitLines(toks, line) ==
    IF toks = <<>> THEN <<line>>
    ELSE IF Head(toks) = NL THEN <<line>> \o SplitLines(Tail(toks), <<>>)
    ELSE SplitLines(Tail(toks), Append(line, Head(toks)))

\* line is inline content: inline+ covers all of it.
LineInlines(line) == inline_repeated(line, 1, <<>>)

IsInlineLine(line) ==
    /\ line # <<>>
    /\ \A i \in 1..Len(line) : line[i] \in {W, B, I}
    /\ LineInlines(line).pos = Len(line) + 1

\* k >= 2 lines of inline content separated by single Newline tokens.
IsNewlineSeparatedLines(toks) ==
    /\ Len(SplitLines(toks, <<>>)) >= 2
    /\ \A i \in 1..Len(SplitLines(toks, <<>>)) :
           IsInlineLine(SplitLines(toks, <<>>)[i])

RECURSIVE InlinesOfLines(_)
InlinesOfLines(lines) ==
    IF lines = <<>> THEN <<>>
    ELSE LineInlines(Head(lines)).val \o InlinesOfLines(Tail(lines))

IsParagraphOfLines(r, toks) ==
    /\ r.ok
    /\ r.doc.blocks = <<Paragraph(InlinesOfLines(SplitLines(toks, <<>>)))>>

(* C13: consecutive non-blank lines form a single paragraph: k >= 2 lines  *)
(* of inline content separated only by single Newline tokens parse to      *)
(* exactly one Paragraph holding the inlines of all k lines.               *)
C13_LinesFormOneParagraph ==
    (Done /\ IsNewlineSeparatedLines(tokens)) =>
        /\ IsParagraphOfLines(chumsky, tokens)
        /\ IsParagraphOfLines(winnow, tokens)

-----------------------------------------------------------------------------
IsEmptyDocument(r) == r.ok /\ r.doc = with_blocks(<<>>) /\ r.errors = <<>>

(* C14: the empty token sequence parses, in both backends, to a Document   *)
(* with zero top-level blocks.                                             *)
C14_EmptyInput ==
    (Done /\ tokens = <<>>) =>
        IsEmptyDocument(chumsky) /\ IsEmptyDocument(winnow)

C14_Witness ==
    /\ Done
    /\ source = <<>>
    /\ tokens = <<>>
    /\ IsEmptyDocument(chumsky)
    /\ IsEmptyDocument(winnow)

-----------------------------------------------------------------------------
\* The number of BlankLine tokens that end toks.
RECURSIVE TrailingBlankLines(_)
TrailingBlankLines(toks) ==
    IF toks # <<>> /\ toks[Len(toks)] = BL
    THEN 1 + TrailingBlankLines(SubSeq(toks, 1, Len(toks) - 1))
    ELSE 0

\* toks without its last n tokens.
DropLast(toks, n) == SubSeq(toks, 1, Len(toks) - n)

\* r is the successful parse that shorter had.
SameAsWithout(r, shorter) == shorter.ok => (r.ok /\ r.doc = shorter.doc)

(* C15: trailing block separators are discarded: when a non-empty token    *)
(* sequence t parses to a Document d, t followed by n >= 1 BlankLine       *)
(* tokens parses too, to a Document equal to d.                            *)
C15_TrailingBlankLinesDiscarded ==
    Done =>
        \A n \in 1..TrailingBlankLines(tokens) :
            DropLast(tokens, n) # <<>> =>
                /\ SameAsWithout(chumsky, document(DropLast(tokens, n)))
                /\ SameAsWithout(winnow,
                                 parse_document_winnow(DropLast(tokens, n)))

\* Two paragraphs, then two blank lines.
C15_Witness ==
    /\ Done
    /\ tokens = <<W, NL, W, BL, BL>>
    /\ document(<<W, NL, W>>).ok
    /\ chumsky.ok
    /\ chumsky.doc = document(<<W, NL, W>>).doc
    /\ Len(chumsky.doc.blocks) = 2

-----------------------------------------------------------------------------
\* The levels of the Sections of blocks, in document order.
RECURSIVE SectionLevelsOf(_)
SectionLevelsOf(blocks) ==
    IF blocks = <<>> THEN <<>>
    ELSE (IF Head(blocks).type = "Section"
          THEN <<Head(blocks).level>> \o SectionLevelsOf(Head(blocks).content)
          ELSE <<>>)
         \o SectionLevelsOf(Tail(blocks))

LevelsFromHeadings(r, toks) ==
    r.ok =>
        /\ \A i \in 1..Len(SectionLevelsOf(r.doc.blocks)) :
               SectionLevelsOf(r.doc.blocks)[i] \in 1..6
        /\ SectionLevelsOf(r.doc.blocks) = HeadingLevelsOf(toks)

(* C16: every Section of a parsed Document has a level in 1..6, the index  *)
(* k of the Heading-k token that opened it.                                *)
C16_SectionLevel ==
    Done => /\ LevelsFromHeadings(chumsky, tokens)
            /\ LevelsFromHeadings(winnow, tokens)

C16_Witness ==
    /\ Done
    /\ tokens = <<H(6), W, NL, H(3), W, BL>>
    /\ chumsky.ok
    /\ winnow.ok
    /\ SectionLevelsOf(chumsky.doc.blocks) = <<6, 3>>
    /\ SectionLevelsOf(winnow.doc.blocks) = <<6, 3>>

-----------------------------------------------------------------------------
\* Every Bold and Italic of inlines, at any depth, has a child.
RECURSIVE SpansNonEmpty(_)
SpansNonEmpty(inlines) ==
    \A i \in 1..Len(inlines) :
        inlines[i].type \in {"Bold", "Italic"} =>
            /\ inlines[i].content # <<>>
            /\ SpansNonEmpty(inlines[i].content)

RECURSIVE BlocksSpansNonEmpty(_)
BlocksSpansNonEmpty(blocks) ==
    \A i \in 1..Len(blocks) :
        IF blocks[i].type = "Section"
        THEN BlocksSpansNonEmpty(blocks[i].content)
        ELSE SpansNonEmpty(blocks[i].content)

\* Some delimiter is directly followed by a delimiter of its kind.
HasAdjacentPair(toks) ==
    \E i \in 1..(Len(toks) - 1) : toks[i] \in {B, I} /\ toks[i + 1] = toks[i]

(* C17: every Bold and every Italic of a parsed Document has at least one  *)
(* child inline; two adjacent delimiters with nothing between them never   *)
(* make an empty Bold or Italic.                                           *)
C17_SpansNonEmpty ==
    Done => /\ chumsky.ok => BlocksSpansNonEmpty(chumsky.doc.blocks)
            /\ winnow.ok => BlocksSpansNonEmpty(winnow.doc.blocks)

\* Adjacent delimiters in a parsed input: the spans nest around the word.
C17_Witness ==
    /\ Done
    /\ tokens = <<I, I, W, I, I, B, W, B>>
    /\ HasAdjacentPair(tokens)
    /\ chumsky.ok
    /\ chumsky.doc.blocks[1].content[1] = Italic(<<Italic(<<Text("word")>>)>>)
    /\ BlocksSpansNonEmpty(winnow.doc.blocks)

-----------------------------------------------------------------------------
\* Some heading token is not directly followed by a Word.
HasUntitledHeading(toks) ==
    \E i \in 1..Len(toks) :
        /\ toks[i] \in HeadingTokens
        /\ (i = Len(toks) \/ toks[i + 1] # W)

(* C18: a heading with no title is rejected: every token sequence in which *)
(* some heading token is not directly followed by a Word fails to parse.   *)
C18_UntitledHeadingRejected ==
    (Done /\ HasUntitledHeading(tokens)) => (~chumsky.ok /\ ~winnow.ok)

\* The second heading of the input has no title.
C18_Witness ==
    /\ Done
    /\ tokens = <<H(1), W, NL, H(2), NL>>
    /\ HasUntitledHeading(tokens)
    /\ ~chumsky.ok
    /\ ~winnow.ok
    /\ chumsky.errors = <<SimpleError>>

-----------------------------------------------------------------------------
\* The lexer and the collection of its tokens have run.
Lexed == pc \in {"lexed", "chumsky", "done"}

IsLineEnd(tok) == tok \in {NL, BL}

\* What a run of newline characters folds to.
FoldedRun(run) ==
    IF run = 0 THEN <<>> ELSE IF run = 1 THEN <<NL>> ELSE <<BL>>

\* One token for each maximal run of newline characters of cs; run counts
\* the newline characters that directly precede cs.
RECURSIVE FoldNewlines(_, _)
FoldNewlines(cs, run) ==
    IF cs = <<>> THEN FoldedRun(run)
    ELSE IF Head(cs) = "\n" THEN FoldNewlines(Tail(cs), run + 1)
    ELSE FoldedRun(run) \o FoldNewlines(Tail(cs), 0)

(* C19: the tokenizer folds blank lines: every maximal run of two or more  *)
(* newline characters becomes exactly one BlankLine token and a single     *)
(* newline character exactly one Newline token.                            *)
C19_BlankLineFolding ==
    Lexed => SelectSeq(tokens, IsLineEnd) = FoldNewlines(chars, 0)

\* A single newline and a run of three in one text.
C19_Witness ==
    /\ Lexed
    /\ chars = <<"\n", "a", "\n", "\n", "\n">>
    /\ tokens = <<NL, W, BL>>
    /\ source[3] = Lexeme("BlankLine", "\n\n\n")

-----------------------------------------------------------------------------
\* The position after the first newline character at or after pos.
RECURSIVE NextLineStart(_, _)
NextLineStart(cs, pos) ==
    IF pos > Len(cs) THEN pos
    ELSE IF cs[pos] = "\n" THEN pos + 1
    ELSE NextLineStart(cs, pos + 1)

\* The levels of the headings of cs when only a run of one to six '=' at
\* the start of a line is a heading; pos is the start of a line.
RECURSIVE LineHeadings(_, _)
LineHeadings(cs, pos) ==
    IF pos > Len(cs) THEN <<>>
    ELSE (IF (RunEnd(cs, pos, {"="}) - pos) \in HeadingLevels
          THEN <<RunEnd(cs, pos, {"="}) - pos>>
          ELSE <<>>)
         \o LineHeadings(cs, NextLineStart(cs, pos))

(* C20: heading tokens are line-anchored: a heading token is produced only *)
(* for a run of '=' at the start of a line, never for a '=' in the middle  *)
(* of a line of text.                                                      *)
C20_HeadingsLineAnchored ==
    Lexed => HeadingLevelsOf(tokens) = LineHeadings(chars, 1)

-----------------------------------------------------------------------------
\* The number of characters of the slices of the items that become tokens.
RECURSIVE KeptChars(_)
KeptChars(src) ==
    IF src = <<>> THEN 0
    ELSE (IF Head(src).tok = "Error" THEN 0 ELSE Len(Head(src).text))
         + KeptChars(Tail(src))

\* The number of inline whitespace characters of cs.
RECURSIVE InlineWhitespaceCount(_)
InlineWhitespaceCount(cs) ==
    IF cs = <<>> THEN 0
    ELSE (IF Head(cs) \in InlineWhitespace THEN 1 ELSE 0)
         + InlineWhitespaceCount(Tail(cs))

(* C21: the tokenizer is total: every character of the text that is not   *)
(* inline whitespace lies in the slice of a token handed to the parser;    *)
(* none is dropped between the text and the token sequence.                *)
C21_NoCharacterDropped ==
    Lexed =>
        /\ KeptChars(source) + InlineWhitespaceCount(chars) = Len(chars)
        /\ Len(tokens) = Len(source)

-----------------------------------------------------------------------------
(* C22: a new collector has no errors; after any sequence of record_error  *)
(* calls errors() is exactly the recorded errors in call order, and        *)
(* has_errors() is true exactly when an error has been recorded.           *)
C22_CollectorKeepsErrors ==
    /\ errors(new) = <<>>
    /\ ~has_errors(new)
    /\ errors(recovery) = calls
    /\ has_errors(recovery) <=> calls # <<>>

\* Two different errors recorded, in that order.
C22_Witness ==
    /\ calls = <<InvalidStructure("test"), UnexpectedEOF("test")>>
    /\ errors(recovery) = calls
    /\ has_errors(recovery)

-----------------------------------------------------------------------------
\* The kinds of the items of toks, an item being a Word, a BoldDelimiter
\* Word BoldDelimiter group or an ItalicDelimiter Word ItalicDelimiter
\* group; "None" where toks stops being a sequence of items.
RECURSIVE ItemKinds(_)
ItemKinds(toks) ==
    IF toks = <<>> THEN <<>>
    ELSE IF Head(toks) = W THEN <<"Text">> \o ItemKinds(Tail(toks))
    ELSE IF Len(toks) >= 3 /\ SubSeq(toks, 1, 3) = <<B, W, B>>
         THEN <<"Bold">> \o ItemKinds(SubSeq(toks, 4, Len(toks)))
    ELSE IF Len(toks) >= 3 /\ SubSeq(toks, 1, 3) = <<I, W, I>>
         THEN <<"Italic">> \o ItemKinds(SubSeq(toks, 4, Len(toks)))
    ELSE <<"None">>

IsItems(toks) ==
    /\ toks # <<>>
    /\ \A i \in 1..Len(ItemKinds(toks)) : ItemKinds(toks)[i] # "None"

\* r is one Paragraph whose i-th inline has the i-th kind; a Bold or an
\* Italic holds one Text.
IsParagraphOfKinds(r, kinds) ==
    /\ r.ok
    /\ Len(r.doc.blocks) = 1
    /\ r.doc.blocks[1].type = "Paragraph"
    /\ Len(r.doc.blocks[1].content) = Len(kinds)
    /\ \A i \in 1..Len(kinds) :
           /\ r.doc.blocks[1].content[i].type = kinds[i]
           /\ kinds[i] # "Text" =>
                  /\ Len(r.doc.blocks[1].content[i].content) = 1
                  /\ r.doc.blocks[1].content[i].content[1].type = "Text"

(* C23: inline order and kind are preserved: a paragraph of k items, each  *)
(* a Word, a bold group or an italic group around one Word, parses to one  *)
(* Paragraph of exactly k inlines, the i-th being Text, Bold or Italic as  *)
(* the i-th item is.                                                       *)
C23_InlineOrderAndKind ==
    (Done /\ IsItems(tokens)) =>
        /\ IsParagraphOfKinds(chumsky, ItemKinds(tokens))
        /\ IsParagraphOfKinds(winnow, ItemKinds(tokens))

\* The input of test_mixed_formatting.
C23_Witness ==
    /\ Done
    /\ tokens = <<W, B, W, B, W, I, W, I>>
    /\ ItemKinds(tokens) = <<"Text", "Bold", "Text", "Italic">>
    /\ IsParagraphOfKinds(chumsky, <<"Text", "Bold", "Text", "Italic">>)
    /\ IsParagraphOfKinds(winnow, <<"Text", "Bold", "Text", "Italic">>)

-----------------------------------------------------------------------------
\* toks is a sequence that ends with a Word or a delimiter, then a Newline.
EndsLineWithNewline(toks) ==
    /\ Len(toks) >= 2
    /\ toks[Len(toks)] = NL
    /\ toks[Len(toks) - 1] \in {W, B, I}

(* C24: the newline that ends a paragraph is optional and carries nothing: *)
(* when a token sequence t that ends with a Word or a closing delimiter    *)
(* parses to a Document d, t followed by one Newline parses too, to a      *)
(* Document equal to d.                                                    *)
C24_ParagraphNewlineOptional ==
    (Done /\ EndsLineWithNewline(tokens)) =>
        /\ SameAsWithout(chumsky, document(DropLast(tokens, 1)))
        /\ SameAsWithout(winnow, parse_document_winnow(DropLast(tokens, 1)))

\* A paragraph that ends with a closing delimiter, then a Newline.
C24_Witness ==
    /\ Done
    /\ tokens = <<W, B, W, B, NL>>
    /\ document(<<W, B, W, B>>).ok
    /\ chumsky.ok
    /\ chumsky.doc = document(<<W, B, W, B>>).doc
    /\ winnow.doc = chumsky.doc

-----------------------------------------------------------------------------
\* The number of nodes of a type among inlines, at any depth.
RECURSIVE InlineCount(_, _)
InlineCount(inlines, type) ==
    IF inlines = <<>> THEN 0
    ELSE (IF Head(inlines).type = type THEN 1 ELSE 0)
         + (IF Head(inlines).type = "Text" THEN 0
            ELSE InlineCount(Head(inlines).content, type))
         + InlineCount(Tail(inlines), type)

\* The number of nodes of a type in blocks: Sections, or inlines of the
\* Paragraphs.
RECURSIVE NodeCount(_, _)
NodeCount(blocks, type) ==
    IF blocks = <<>> THEN 0
    ELSE (IF Head(blocks).type = "Section"
          THEN (IF type = "Section" THEN 1 ELSE 0)
               + NodeCount(Head(blocks).content, type)
          ELSE InlineCount(Head(blocks).content, type))
         + NodeCount(Tail(blocks), type)

\* The number of tokens of toks in set.
RECURSIVE TokenCount(_, _)
TokenCount(toks, set) ==
    IF toks = <<>> THEN 0
    ELSE (IF Head(toks) \in set THEN 1 ELSE 0) + TokenCount(Tail(toks), set)

\* The number of Words of toks that stand in a heading's title: in the run
\* of Words right after a heading token.  inTitle: toks follows a heading
\* token and Words only.
RECURSIVE TitleWordCount(_, _)
TitleWordCount(toks, inTitle) ==
    IF toks = <<>> THEN 0
    ELSE IF Head(toks) \in HeadingTokens THEN TitleWordCount(Tail(toks), TRUE)
    ELSE IF Head(toks) = W
         THEN (IF inTitle THEN 1 ELSE 0) + TitleWordCount(Tail(toks), inTitle)
    ELSE TitleWordCount(Tail(toks), FALSE)

Conserved(r, toks) ==
    r.ok =>
        /\ NodeCount(r.doc.blocks, "Section") = TokenCount(toks, HeadingTokens)
        /\ 2 * NodeCount(r.doc.blocks, "Bold") = TokenCount(toks, {B})
        /\ 2 * NodeCount(r.doc.blocks, "Italic") = TokenCount(toks, {I})
        /\ NodeCount(r.doc.blocks, "Text") =
               TokenCount(toks, {W}) - TitleWordCount(toks, FALSE)

(* C25: tokens are conserved on success: the Document has as many Sections *)
(* as the input has heading tokens, half as many Bold (Italic) nodes as    *)
(* BoldDelimiter (ItalicDelimiter) tokens, and as many Text leaves as Word *)
(* tokens outside heading titles; so an odd number of either delimiter is  *)
(* rejected.                                                               *)
C25_TokenConservation ==
    Done => /\ Conserved(chumsky, tokens)
            /\ Conserved(winnow, tokens)
            /\ (\/ TokenCount(tokens, {B}) % 2 = 1
                \/ TokenCount(tokens, {I}) % 2 = 1)
                   => (~chumsky.ok /\ ~winnow.ok)

\* A two-word title and a one-word paragraph: one Section, one Text.
C25_Witness ==
    /\ Done
    /\ tokens = <<H(1), W, W, NL, W>>
    /\ chumsky.ok
    /\ winnow.ok
    /\ NodeCount(chumsky.doc.blocks, "Section") = 1
    /\ NodeCount(winnow.doc.blocks, "Text") = 1
    /\ TitleWordCount(tokens, FALSE) = 2

-----------------------------------------------------------------------------
StartsWithLineBreak(toks) == toks # <<>> /\ Head(toks) \in {NL, BL}

(* C26: no block begins with a line break: every token sequence whose      *)
(* first token is Newline or BlankLine, one made of separators only        *)
(* included, is rejected by both backends.                                 *)
C26_LeadingLineBreakRejected ==
    (Done /\ StartsWithLineBreak(tokens)) => (~chumsky.ok /\ ~winnow.ok)

\* A blank line before a paragraph is rejected; after it, it is accepted.
C26_Witness ==
    /\ Done
    /\ tokens = <<BL, W>>
    /\ ~chumsky.ok
    /\ ~winnow.ok
    /\ document(<<W, BL>>).ok
    /\ parse_document_winnow(<<W, BL>>).ok

-----------------------------------------------------------------------------
\* Some line break of toks lies inside a span: an odd number of delimiters
\* of a kind precede it, the last of them open, and one to close it follows.
CrossesLineBreak(toks) ==
    \E i \in 1..Len(toks) : \E d \in {B, I} :
        /\ toks[i] \in {NL, BL}
        /\ TokenCount(SubSeq(toks, 1, i - 1), {d}) % 2 = 1
        /\ TokenCount(SubSeq(toks, i + 1, Len(toks)), {d}) >= 1

(* C27: formatting spans never cross a line break: a Bold or Italic        *)
(* consumes Word and delimiter tokens only, so every input in which a      *)
(* Newline or BlankLine lies between an opening delimiter and its closing  *)
(* delimiter is rejected.                                                  *)
C27_SpansStayOnOneLine ==
    (Done /\ CrossesLineBreak(tokens)) => (~chumsky.ok /\ ~winnow.ok)

C27_Witness ==
    /\ Done
    /\ tokens = <<B, W, NL, W, B>>
    /\ CrossesLineBreak(tokens)
    /\ ~chumsky.ok
    /\ ~winnow.ok
    /\ winnow.errors = <<ContextError>>

-----------------------------------------------------------------------------
\* toks ends with a heading token and one or more Words, and no line end.
EndsWithOpenHeadingLine(toks) ==
    \E i \in 1..(Len(toks) - 1) :
        /\ toks[i] \in HeadingTokens
        /\ \A j \in (i + 1)..Len(toks) : toks[j] = W

(* C28: a heading line must be terminated: a token sequence that ends with *)
(* a heading token followed only by Words, with no Newline or BlankLine    *)
(* after the title, is rejected, not parsed as a Section without content.  *)
C28_HeadingLineTerminated ==
    (Done /\ EndsWithOpenHeadingLine(tokens)) => (~chumsky.ok /\ ~winnow.ok)

\* A paragraph, then a heading line that ends the input without a line end.
C28_Witness ==
    /\ Done
    /\ tokens = <<W, BL, H(1), W, W>>
    /\ EndsWithOpenHeadingLine(tokens)
    /\ ~chumsky.ok
    /\ ~winnow.ok
    /\ document(<<W, BL, H(1), W, W, NL>>).ok

-----------------------------------------------------------------------------
\* A delimiter stands on a heading's line: after a heading token, before
\* any line end.
DelimiterInHeadingLine(toks) ==
    \E i \in 1..Len(toks) : \E j \in (i + 1)..Len(toks) :
        /\ toks[i] \in HeadingTokens
        /\ toks[j] \in {B, I}
        /\ \A k \in (i + 1)..(j - 1) : toks[k] \notin {NL, BL}

(* C29: heading titles accept Words only: every token sequence with a      *)
(* BoldDelimiter or ItalicDelimiter between a heading token and the line   *)
(* end of its line is rejected; a title is never parsed as inlines.        *)
C29_TitleWordsOnly ==
    (Done /\ DelimiterInHeadingLine(tokens)) => (~chumsky.ok /\ ~winnow.ok)

\* An italic title on a terminated heading line.
C29_Witness ==
    /\ Done
    /\ tokens = <<H(2), I, W, I, NL>>
    /\ DelimiterInHeadingLine(tokens)
    /\ ~chumsky.ok
    /\ ~winnow.ok
    /\ document(<<I, W, I, NL>>).ok

====
